---- MODULE Spec2Model ----
(***************************************************************************)
(* Model of randomness_tests.py: acquisition of a byte buffer (from a file *)
(* or from the bb.exe tool's HEX output), the five statistical tests and   *)
(* the report, as the sequence of steps main() takes.                      *)
(*                                                                         *)
(* Floating-point values are kept exact and symbolic: a rational is a pair *)
(* of integers, and sqrt, the quotient by a square root and the            *)
(* transcendental functions (erfc, erf, log2) are kept as unevaluated      *)
(* terms.  A literal 0.0 and float("inf") are their own constants.         *)
(***************************************************************************)
EXTENDS Integers, Sequences, FiniteSets, TLC

\* ------------------------------------------------------------------ bounds
MaxLen == 4
MaxBits == 17
MaxHexLen == 4
MaxLead == 1

\* Byte values the file contents are drawn from: all-zero, a single low bit,
\* the 0x42 of the documentation, a single high bit, alternating bits, all-one.
ByteVals == {0, 1, 66, 128, 170, 255}

\* Characters the textual inputs are drawn from: two hex digits, the space
\* and a character that is no hex digit.
Chars == {"0", "f", " ", "g"}

\* --------------------------------------------------------------- sequences
SeqsUpTo(S, k) == UNION {[1..m -> S] : m \in 0..k}

Buffers == SeqsUpTo(ByteVals, MaxLen)

Texts == SeqsUpTo(Chars, MaxHexLen)

RECURSIVE Sum(_)
Sum(s) == IF s = <<>> THEN 0 ELSE Head(s) + Sum(Tail(s))

Abs(x) == IF x < 0 THEN -x ELSE x

\* ------------------------------------------------------------ float values
\* n/d as an exact rational
Rat(n, d) == [k |-> "rat", n |-> n, d |-> d]
\* math.sqrt(x), unevaluated
Sqrt(x) == [k |-> "sqrt", of |-> x]
\* a / b of two float values, b not zero, unevaluated
Quot(a, b) == [k |-> "quot", num |-> a, den |-> b]
\* the literal 0.0
Zero == Rat(0, 1)
\* float("inf")
Inf == [k |-> "inf"]
\* math.erfc(|z| / sqrt(2)), unevaluated
Erfc(z) == [k |-> "erfc", arg |-> z]
\* a p-value that is the literal 0.0
PZero == [k |-> "lit0", arg |-> Zero]
\* the Wilson-Hilferty tail 1 - Phi(((chi/df)^(1/3) - mu)/sigma), unevaluated
WilsonHilferty(chi, df) == [k |-> "wh", arg |-> chi, df |-> df]

\* ------------------------------------------------------------- text helpers
HexDigits == <<"0", "1", "2", "3", "4", "5", "6", "7", "8", "9",
               "a", "b", "c", "d", "e", "f">>

IsHex(c) == \E i \in 1..16 : HexDigits[i] = c

HexVal(c) == (CHOOSE i \in 1..16 : HexDigits[i] = c) - 1

\* str.strip(): leading and trailing spaces removed
RECURSIVE LStrip(_)
LStrip(s) == IF s # <<>> /\ Head(s) = " " THEN LStrip(Tail(s)) ELSE s

RECURSIVE RStrip(_)
RStrip(s) ==
    IF s # <<>> /\ s[Len(s)] = " " THEN RStrip(SubSeq(s, 1, Len(s) - 1)) ELSE s

Strip(s) == RStrip(LStrip(s))

\* str.replace(" ", "")
RemoveSpaces(s) == SelectSeq(s, LAMBDA c : c # " ")

\* bytes.fromhex: whitespace between pairs is skipped, every byte is two
\* adjacent hex digits; anything else is a ValueError (ok = FALSE)
RECURSIVE fromhex(_)
fromhex(s) ==
    IF s = <<>> THEN [ok |-> TRUE, bytes |-> <<>>]
    ELSE IF Head(s) = " " THEN fromhex(Tail(s))
    ELSE IF Len(s) >= 2 /\ IsHex(s[1]) /\ IsHex(s[2])
         THEN LET r == fromhex(SubSeq(s, 3, Len(s)))
              IN  [ok |-> r.ok,
                   bytes |-> IF r.ok
                             THEN <<16 * HexVal(s[1]) + HexVal(s[2])>> \o r.bytes
                             ELSE <<>>]
         ELSE [ok |-> FALSE, bytes |-> <<>>]

\* ------------------------------------------------------ run_bb_and_read_hex
\* A line of the tool's stdout is a sequence of tokens: the characters above,
\* the word "HEX:" and "x" for any other word.
OtherLine == <<"x", " ", "f", "f">>

HexLine(lead, payload) == [i \in 1..lead |-> " "] \o <<"HEX:">> \o payload

DecoyLine == <<"HEX:", "f", "f">>

\* The outputs the tool is taken to print: up to MaxLead other lines, then
\* possibly a HEX line (indented or not) with any payload, then possibly a
\* second HEX line.
Stdouts ==
    LET leads == {[i \in 1..m |-> OtherLine] : m \in 0..MaxLead}
    IN  leads \cup
        {l \o <<HexLine(sp, p)>> \o t :
            l \in leads, sp \in 0..1, p \in Texts, t \in {<<>>, <<DecoyLine>>}}

\* What subprocess.run does: times out, finds no executable, exits non-zero,
\* or exits zero having printed some lines.
ToolOutcomes ==
    {[kind |-> k, stdout |-> <<>>] : k \in {"timeout", "notfound", "failed"}}
    \cup {[kind |-> "ok", stdout |-> s] : s \in Stdouts}

\* for line in proc.stdout.splitlines(): ... break
\* "none" when no line starts with HEX:, else the stripped rest of the first
RECURSIVE FindHexLine(_)
FindHexLine(lines) ==
    IF lines = <<>> THEN [found |-> FALSE, text |-> <<>>]
    ELSE LET line == Strip(Head(lines))
         IN  IF line # <<>> /\ line[1] = "HEX:"
             THEN [found |-> TRUE, text |-> Strip(Tail(line))]
             ELSE FindHexLine(Tail(lines))

Raise(e) == [exc |-> e, data |-> <<>>, invoked |-> FALSE]

ToolRaise(e) == [exc |-> e, data |-> <<>>, invoked |-> TRUE]

\* left-pad with zero bytes or truncate to expected_len
NormalizeLenUnchecked(data, expected_len) == data

NormalizeLen(data, expected_len) ==
    IF Len(data) # expected_len
    THEN IF Len(data) < expected_len
         THEN [i \in 1..(expected_len - Len(data)) |-> 0] \o data
         ELSE SubSeq(data, 1, expected_len)
    ELSE data

\* the body below the bits check: invoke the tool, find and parse the HEX line
InvokeAndParse(bits, out) ==
    IF out.kind # "ok" THEN ToolRaise("RuntimeError")
    ELSE LET hex_line == FindHexLine(out.stdout)
         IN  IF ~hex_line.found \/ hex_line.text = <<>>
             THEN ToolRaise("RuntimeError")
             ELSE LET parsed == fromhex(RemoveSpaces(hex_line.text))
                  IN  IF ~parsed.ok THEN ToolRaise("RuntimeError")
                      ELSE [exc |-> "none",
                            data |-> NormalizeLen(parsed.bytes, (bits + 7) \div 8),
                            invoked |-> TRUE]

run_bb_unguarded(bits, out) == InvokeAndParse(bits, out)

run_bb_and_read_hex(bits, out) ==
    IF bits <= 0 THEN Raise("ValueError") ELSE InvokeAndParse(bits, out)

\* --------------------------------------------------------- bits_from_bytes
\* for i in range(8): yield (b >> (7 - i)) & 1
BitsOfByteLsbFirst(b) == [i \in 1..8 |-> (b \div (2 ^ (i - 1))) % 2]

BitsOfByte(b) == [i \in 1..8 |-> (b \div (2 ^ (7 - (i - 1)))) % 2]

\* for b in data: (the bits of b)
RECURSIVE bits_from_bytes(_)
bits_from_bytes(data) ==
    IF data = <<>> THEN <<>>
    ELSE BitsOfByte(Head(data)) \o bits_from_bytes(Tail(data))

\* ------------------------------------------------------------ monobit_test
NoResult == [exc |-> "unset"]

\* (ones and zeros exchanged)
MonobitComputeSwapped(bs) ==
    LET n     == Len(bs)
        zeros == Sum(bs)
        ones  == n - zeros
        s     == Abs(ones - zeros)
    IN  [exc |-> "none", p |-> Erfc(Quot(Rat(s, 1), Sqrt(Rat(n, 1)))),
         z |-> Quot(Rat(s, 1), Sqrt(Rat(n, 1))),
         ones |-> ones, zeros |-> zeros, bs |-> bs]

\* lines 94-99, reached with n = len(bs); s / math.sqrt(n) divides by zero
\* when n is 0
MonobitCompute(bs) ==
    LET n     == Len(bs)
        ones  == Sum(bs)
        zeros == n - ones
        s     == Abs(ones - zeros)
    IN  IF n = 0
        THEN [exc |-> "ZeroDivisionError", p |-> PZero, z |-> Zero,
              ones |-> ones, zeros |-> zeros, bs |-> bs]
        ELSE [exc |-> "none", p |-> Erfc(Quot(Rat(s, 1), Sqrt(Rat(n, 1)))),
              z |-> Quot(Rat(s, 1), Sqrt(Rat(n, 1))),
              ones |-> ones, zeros |-> zeros, bs |-> bs]

monobit_unguarded(data) == MonobitCompute(bits_from_bytes(data))

monobit_test(data) ==
    LET bs == bits_from_bytes(data)
        n  == Len(bs)
    IN  IF n = 0
        THEN [exc |-> "none", p |-> PZero, z |-> Zero, ones |-> 0, zeros |-> 0,
              bs |-> bs]
        ELSE MonobitCompute(bs)

\* --------------------------------------------------------------- runs_test
\* runs = 1; for i in range(1, n): if bs[i] != bs[i - 1]: runs += 1
\* (as if the loop were range(n): bs[0] is compared with bs[-1], the last bit)
CountRunsWrap(bs, i, runs) ==
    runs + Cardinality({j \in i..Len(bs) : bs[j] # bs[j - 1]})
         + (IF bs[1] # bs[Len(bs)] THEN 1 ELSE 0)

RECURSIVE CountRuns(_, _, _)
CountRuns(bs, i, runs) ==
    IF i > Len(bs) THEN runs
    ELSE CountRuns(bs, i + 1, IF bs[i] # bs[i - 1] THEN runs + 1 ELSE runs)

\* numerator of the variance, 2*ones*zeros*(2*ones*zeros - n)
VarianceNumHalved(ones, zeros, n) == 2 * ones * zeros * (ones * zeros - n)

VarianceNum(ones, zeros, n) == 2 * ones * zeros * (2 * ones * zeros - n)

\* lines 112-122
RunsCompute(bs, n, ones, zeros) ==
    LET runs     == CountRuns(bs, 2, 1)
        expected == Rat(n + 2 * ones * zeros, n)
        varNum   == VarianceNum(ones, zeros, n)
        varDen   == n * n * (n - 1)
        \* runs - expected = dev / n
        dev      == n * runs - n - 2 * ones * zeros
    IN  IF varNum <= 0
        THEN [exc |-> "none", branch |-> "variance", p |-> PZero, runs |-> runs,
              expected |-> expected, z |-> Inf, bs |-> bs]
        ELSE LET z == Quot(Rat(dev, n), Sqrt(Rat(varNum, varDen)))
             IN  [exc |-> "none", branch |-> "z", p |-> Erfc(z), runs |-> runs,
                  expected |-> expected, z |-> z, bs |-> bs]

runs_test(data) ==
    LET bs    == bits_from_bytes(data)
        n     == Len(bs)
        ones  == Sum(bs)
        zeros == n - ones
    IN  IF n < 2
        THEN [exc |-> "none", branch |-> "short", p |-> PZero, runs |-> 0,
              expected |-> Zero, z |-> Zero, bs |-> bs]
        ELSE IF ones = 0 \/ zeros = 0
        THEN [exc |-> "none", branch |-> "constant", p |-> PZero, runs |-> 1,
              expected |-> Zero, z |-> Inf, bs |-> bs]
        ELSE RunsCompute(bs, n, ones, zeros)

\* --------------------------------------------------------- byte_chi_square
\* (counts[b] = 1 in place of counts[b] += 1)
CountsAssigned(data) ==
    [v \in 0..255 |-> IF \E i \in 1..Len(data) : data[i] = v THEN 1 ELSE 0]

\* counts = [0] * 256; for b in data: counts[b] += 1
Counts(data) ==
    [v \in 0..255 |-> Cardinality({i \in 1..Len(data) : data[i] = v})]

\* for c in counts: diff = c - expected; chi += diff*diff / expected, with
\* expected = n/256: each term is (256c - n)^2 / (256n); the numerators summed
\* over the bins lo..hi (the range is halved to keep the evaluation shallow)
RECURSIVE ChiNum(_, _, _, _)
ChiNum(counts, n, lo, hi) ==
    IF lo = hi THEN LET diff == 256 * counts[lo] - n IN diff * diff
    ELSE LET mid == (lo + hi) \div 2
         IN  ChiNum(counts, n, lo, mid) + ChiNum(counts, n, mid + 1, hi)

byte_chi_square(data) ==
    LET n == Len(data)
    IN  IF n = 0
        THEN [exc |-> "none", chi |-> Zero, p |-> PZero]
        ELSE LET chi == Rat(ChiNum(Counts(data), n, 0, 255), 256 * n)
             IN  [exc |-> "none", chi |-> chi, p |-> WilsonHilferty(chi, 255)]

\* ------------------------------------------------ shannon_entropy_per_byte
\* for c in counts: if c == 0: continue; p = c / n; entropy -= p * log2(p)
\* The sum is kept as the sequence of the counts c of its terms, in bin order.
\* Over the bins lo..hi, the range halved as in ChiNum.
RECURSIVE EntropyTerms(_, _, _)
EntropyTerms(counts, lo, hi) ==
    IF lo = hi THEN (IF counts[lo] = 0 THEN <<>> ELSE <<counts[lo]>>)
    ELSE LET mid == (lo + hi) \div 2
         IN  EntropyTerms(counts, lo, mid) \o EntropyTerms(counts, mid + 1, hi)

shannon_entropy_per_byte(data) ==
    IF data = <<>>
    THEN [exc |-> "none", k |-> "lit0", terms |-> <<>>, n |-> 0]
    ELSE [exc |-> "none", k |-> "sum", terms |-> EntropyTerms(Counts(data), 0, 255),
          n |-> Len(data)]

\* The float the entropy record stands for is 0.0: the literal, or a sum whose
\* every term has p = c/n = 1.0 and so log2(p) = 0.0.
EntropyIsZero(e) ==
    e.k = "lit0" \/ \A i \in 1..Len(e.terms) : e.terms[i] = e.n

\* ------------------------------------------------------ serial_correlation
\* sum(data[i] * data[(i + 1) % n] for i in range(n)), 1-based here
S12Open(data) ==
    LET n == Len(data)
    IN  Sum([i \in 1..(n - 1) |-> data[i] * data[i + 1]])

S12(data) ==
    LET n == Len(data)
    IN  Sum([i \in 1..n |-> data[i] * data[(i % n) + 1]])

serial_correlation(data) ==
    LET n  == Len(data)
        s1 == Sum(data)
        s2 == Sum([i \in 1..n |-> data[i] * data[i]])
        numerator   == n * S12(data) - s1 * s1
        denominator == n * s2 - s1 * s1
    IN  IF n < 2
        THEN [exc |-> "none", branch |-> "short", rho |-> Zero,
              numerator |-> 0, denominator |-> 0]
        ELSE IF denominator = 0
        THEN [exc |-> "none", branch |-> "den0", rho |-> Zero,
              numerator |-> numerator, denominator |-> denominator]
        ELSE [exc |-> "none", branch |-> "ratio",
              rho |-> Rat(numerator, denominator),
              numerator |-> numerator, denominator |-> denominator]

\* --------------------------------------------------------------------- main
VARIABLES pc, args, data, mono, runs, chi, ent, rho, warned, printed, err, ret,
          toolCalls

vars == <<pc, args, data, mono, runs, chi, ent, rho, warned, printed, err, ret,
          toolCalls>>

\* --bb-bits values: negative, zero and positive requests
BitsRequests == (-2)..MaxBits

\* What parse_args returns: --file with a path (raw or --hex), --file with an
\* empty string, or --bb-bits with an integer.  bb_bits is <<>> for None.
Args ==
    {[file |-> "path", hex |-> h, bb_bits |-> <<>>] : h \in BOOLEAN}
    \cup {[file |-> "empty", hex |-> FALSE, bb_bits |-> <<>>]}
    \cup {[file |-> "none", hex |-> FALSE, bb_bits |-> <<b>>] : b \in BitsRequests}

Init ==
    /\ pc = "start"
    /\ args \in Args
    /\ data = <<>>
    /\ mono = NoResult
    /\ runs = NoResult
    /\ chi = NoResult
    /\ ent = NoResult
    /\ rho = NoResult
    /\ warned = FALSE
    /\ printed = FALSE
    /\ err = "none"
    /\ ret = -1
    /\ toolCalls = 0

\* except Exception as e: print(f"error: {e}", file=sys.stderr); return 1
ErrorExit(e) ==
    /\ err' = e
    /\ ret' = 1
    /\ pc' = "done"

\* data is bound; the small-sample warning is printed; the tests come next
Acquired(d) ==
    /\ data' = d
    /\ warned' = (Len(d) < 1024)
    /\ pc' = "mono"
    /\ UNCHANGED <<err, ret>>

\* if args.file: open, read, and with --hex decode, strip and fromhex
ReadFile ==
    /\ pc = "start"
    /\ args.file = "path"
    /\ \/ ErrorExit("OSError") /\ UNCHANGED <<data, warned>>
       \/ /\ ~args.hex
          /\ \E d \in Buffers : Acquired(d)
       \/ /\ args.hex
          /\ \E t \in Texts :
                LET parsed == fromhex(Strip(t))
                IN  IF parsed.ok
                    THEN Acquired(parsed.bytes)
                    ELSE ErrorExit("ValueError") /\ UNCHANGED <<data, warned>>
    /\ UNCHANGED <<args, mono, runs, chi, ent, rho, printed, toolCalls>>

\* else: if args.bb_bits is None: raise RuntimeError
MissingBits ==
    /\ pc = "start"
    /\ args.file # "path"
    /\ args.bb_bits = <<>>
    /\ ErrorExit("RuntimeError")
    /\ UNCHANGED <<args, data, mono, runs, chi, ent, rho, warned, printed,
                   toolCalls>>

\* data = run_bb_and_read_hex(args.bb_bits, ...)
RunBB ==
    /\ pc = "start"
    /\ args.file # "path"
    /\ args.bb_bits # <<>>
    /\ \E out \in ToolOutcomes :
          LET r == run_bb_and_read_hex(args.bb_bits[1], out)
          IN  /\ toolCalls' = IF r.invoked THEN toolCalls + 1 ELSE toolCalls
              /\ IF r.exc = "none"
                 THEN Acquired(r.data)
                 ELSE ErrorExit(r.exc) /\ UNCHANGED <<data, warned>>
    /\ UNCHANGED <<args, mono, runs, chi, ent, rho, printed>>

\* One test call of main: its result is bound, or its exception ends main.
TestStep(r, next) ==
    IF r.exc = "none"
    THEN pc' = next /\ UNCHANGED <<err, ret>>
    ELSE ErrorExit(r.exc)

Monobit ==
    /\ pc = "mono"
    /\ LET r == monobit_test(data)
       IN  /\ mono' = (IF r.exc = "none" THEN r ELSE mono)
           /\ TestStep(r, "runs")
    /\ UNCHANGED <<args, data, runs, chi, ent, rho, warned, printed, toolCalls>>

Runs ==
    /\ pc = "runs"
    /\ LET r == runs_test(data)
       IN  /\ runs' = (IF r.exc = "none" THEN r ELSE runs)
           /\ TestStep(r, "chi")
    /\ UNCHANGED <<args, data, mono, chi, ent, rho, warned, printed, toolCalls>>

ChiSquare ==
    /\ pc = "chi"
    /\ LET r == byte_chi_square(data)
       IN  /\ chi' = (IF r.exc = "none" THEN r ELSE chi)
           /\ TestStep(r, "ent")
    /\ UNCHANGED <<args, data, mono, runs, ent, rho, warned, printed, toolCalls>>

Entropy ==
    /\ pc = "ent"
    /\ LET r == shannon_entropy_per_byte(data)
       IN  /\ ent' = (IF r.exc = "none" THEN r ELSE ent)
           /\ TestStep(r, "rho")
    /\ UNCHANGED <<args, data, mono, runs, chi, rho, warned, printed, toolCalls>>

SerialCorrelation ==
    /\ pc = "rho"
    /\ LET r == serial_correlation(data)
       IN  /\ rho' = (IF r.exc = "none" THEN r ELSE rho)
           /\ TestStep(r, "report")
    /\ UNCHANGED <<args, data, mono, runs, chi, ent, warned, printed, toolCalls>>

\* the print calls of the report; return 0
Report ==
    /\ pc = "report"
    /\ printed' = TRUE
    /\ ret' = 0
    /\ pc' = "done"
    /\ UNCHANGED <<args, data, mono, runs, chi, ent, rho, warned, err, toolCalls>>

Next ==
    \/ ReadFile
    \/ MissingBits
    \/ RunBB
    \/ Monobit
    \/ Runs
    \/ ChiSquare
    \/ Entropy
    \/ SerialCorrelation
    \/ Report

Spec == Init /\ [][Next]_vars

\* ------------------------------------------------------------------ claims
IsSet(r) == r.exc = "none"

Pow2(e) == 2 ^ e

\* bs is the bits of buf, each byte's bits most-significant first
MsbFirst(bs, buf) ==
    /\ Len(bs) = 8 * Len(buf)
    /\ \A k \in 0..(Len(buf) - 1) : \A i \in 0..7 :
          bs[8 * k + i + 1] = (buf[k + 1] \div Pow2(7 - i)) % 2

\* C1: the bit list both bit tests draw from bits_from_bytes has exactly 8n
\* bits, and the bit at position 8k+i is bit (7 - i) of byte k (n = 0 included).
C1_BitsMsbFirst ==
    /\ IsSet(mono) => MsbFirst(mono.bs, data)
    /\ IsSet(runs) => MsbFirst(runs.bs, data)

C1_Witness ==
    /\ IsSet(mono)
    /\ IsSet(runs)
    /\ data = <<1, 128, 66>>

AlternatingBuffer == <<255, 0, 255, 0>>

\* C2 as stated: for the buffer FF 00 FF 00, ones == zeros and runs == 8.
C2_Original ==
    (data = AlternatingBuffer /\ IsSet(mono) /\ IsSet(runs))
        => (mono.ones = mono.zeros /\ runs.runs = 8)

\* C2 amended: for the buffer FF 00 FF 00, ones == zeros (16 each) and
\* runs == 4, one run per byte.
C2_AlternatingBytes ==
    (data = AlternatingBuffer /\ IsSet(mono) /\ IsSet(runs))
        => (mono.ones = mono.zeros /\ mono.ones = 16 /\ runs.runs = 4)

C2_Witness ==
    /\ data = AlternatingBuffer
    /\ IsSet(mono)
    /\ IsSet(runs)
    /\ pc = "done"

\* The maximal runs of bs, as pairs <<first, last>>: all bits of first..last are
\* equal, and the run can be extended neither to the left nor to the right.
MaximalRuns(bs) ==
    LET n      == Len(bs)
        starts == {a \in 1..n : a = 1 \/ bs[a - 1] # bs[a]}
        ends   == {b \in 1..n : b = n \/ bs[b + 1] # bs[b]}
    IN  {r \in starts \X ends :
            /\ r[1] <= r[2]
            /\ \A j \in r[1]..r[2] : bs[j] = bs[r[1]]}

\* C3: for a buffer of at least one byte, runs is the number of maximal runs
\* of equal bits of the bit sequence, and 1 <= runs <= n = 8 * len(buffer).
C3_RunsCount ==
    (IsSet(runs) /\ Len(data) >= 1) =>
        /\ runs.runs = Cardinality(MaximalRuns(runs.bs))
        /\ 1 <= runs.runs
        /\ runs.runs <= 8 * Len(data)

C3_Witness ==
    /\ IsSet(runs)
    /\ Len(data) >= 2
    /\ runs.runs = 8 * Len(data)

AllZero(buf) == \A i \in 1..Len(buf) : buf[i] = 0

\* C4: for an all-zero buffer of positive length, monobit_test returns
\* ones == 0 and zeros == n, and runs_test returns runs == 1, z == +infinity
\* and p_value == 0.
C4_AllZeroBuffer ==
    (Len(data) >= 1 /\ AllZero(data)) =>
        /\ IsSet(mono) => (mono.ones = 0 /\ mono.zeros = 8 * Len(data))
        /\ IsSet(runs) => (runs.runs = 1 /\ runs.z = Inf /\ runs.p = PZero)

C4_Witness ==
    /\ Len(data) >= 2
    /\ AllZero(data)
    /\ IsSet(mono)
    /\ IsSet(runs)

IsConstant(buf) == \A i \in 1..Len(buf) : buf[i] = buf[1]

\* C5: for a constant buffer of length n >= 2, the entropy is 0.0, the serial
\* correlation is 0.0 through the denominator-zero branch, and chi_square is
\* 255 * n; and no buffer of length n has a chi_square above 255 * n.
C5_ConstantBuffer ==
    /\ (IsSet(chi) /\ Len(data) >= 1) =>
          /\ chi.chi.d = 256 * Len(data)
          /\ chi.chi.n <= 255 * Len(data) * chi.chi.d
    /\ (Len(data) >= 2 /\ IsConstant(data)) =>
          /\ IsSet(chi) => chi.chi.n = 255 * Len(data) * chi.chi.d
          /\ IsSet(ent) => EntropyIsZero(ent)
          /\ IsSet(rho) => (rho.rho = Zero /\ rho.branch = "den0")

C5_Witness ==
    /\ data = <<66, 66, 66>>
    /\ IsSet(chi)
    /\ IsSet(ent)
    /\ IsSet(rho)

\* C6: for the empty buffer no test raises and each returns its degenerate
\* result: monobit (0, 0, 0, 0), runs in {0, 1} with p_value 0, chi-square
\* (0, 0), entropy 0.0, serial correlation 0.0; main goes on to its report.
C6_EmptyBuffer ==
    (warned /\ data = <<>>) =>
        /\ err = "none"
        /\ IsSet(mono) =>
              (mono.p = PZero /\ mono.z = Zero /\ mono.ones = 0 /\ mono.zeros = 0)
        /\ IsSet(runs) => (runs.runs \in {0, 1} /\ runs.p = PZero)
        /\ IsSet(chi) => (chi.chi = Zero /\ chi.p = PZero)
        /\ IsSet(ent) => ent.k = "lit0"
        /\ IsSet(rho) => rho.rho = Zero
        /\ pc = "done" => (ret = 0 /\ printed)

C6_Witness ==
    /\ warned
    /\ data = <<>>
    /\ pc = "done"
    /\ IsSet(mono) /\ IsSet(runs) /\ IsSet(chi) /\ IsSet(ent) /\ IsSet(rho)

\* C7: rho lies in [-1, 1]: for n >= 2 the denominator n*S2 - S1^2 is >= 0 and
\* |numerator| <= denominator; rho is the literal 0 when the denominator is 0
\* or n < 2, and numerator/denominator otherwise.
C7_RhoInUnitInterval ==
    IsSet(rho) =>
        /\ Len(data) >= 2 =>
              /\ rho.denominator >= 0
              /\ Abs(rho.numerator) <= rho.denominator
        /\ (Len(data) < 2 \/ rho.denominator = 0) => rho.rho = Zero
        /\ (Len(data) >= 2 /\ rho.denominator # 0) =>
              rho.rho = Rat(rho.numerator, rho.denominator)

C7_Witness ==
    /\ IsSet(rho)
    /\ Len(data) >= 3
    /\ rho.branch = "ratio"
    /\ rho.numerator < 0
    /\ rho.numerator > -rho.denominator

\* the least m with 8 * m >= bits
CeilDiv8(bits) == CHOOSE m \in 0..bits : 8 * m >= bits /\ 8 * (m - 1) < bits

BitsOf(a) == a.bb_bits[1]

\* C8: for a request of bits > 0, whatever the tool prints,
\* run_bb_and_read_hex returns a buffer of exactly ceil(bits/8) bytes or
\* fails with an error.
C8_ExactLengthOrFail ==
    (args.bb_bits # <<>> /\ BitsOf(args) > 0 /\ pc # "start") =>
        IF warned
        THEN Len(data) = CeilDiv8(BitsOf(args))
        ELSE err # "none" /\ pc = "done" /\ ret = 1

C8_Witness ==
    /\ args.bb_bits = <<17>>
    /\ data = <<0, 0, 255>>
    /\ pc = "mono"

\* C9: a negative bit count is rejected with a ValueError before the tool is
\* invoked and before any test runs: main returns 1, no test has run and no
\* report is printed.
C9_NegativeBitsRejected ==
    (args.bb_bits # <<>> /\ BitsOf(args) < 0 /\ pc # "start") =>
        /\ err = "ValueError"
        /\ toolCalls = 0
        /\ pc = "done"
        /\ ret = 1
        /\ ~printed
        /\ mono = NoResult /\ runs = NoResult /\ chi = NoResult
        /\ ent = NoResult /\ rho = NoResult

C9_Witness ==
    /\ args.bb_bits = <<-1>>
    /\ pc = "done"
    /\ ret = 1

\* C10: whenever runs_test gets past its constant-sequence return (a buffer of
\* at least one byte with ones >= 1 and zeros >= 1), 2*ones*zeros > n, the
\* variance is positive, the variance <= 0 return is not taken and z is the
\* finite (runs - expected)/sqrt(variance).
C10_VariancePositive ==
    IsSet(runs) =>
        LET n     == Len(runs.bs)
            ones  == Sum(runs.bs)
            zeros == n - ones
        IN  /\ runs.branch # "variance"
            /\ (n >= 8 /\ ones >= 1 /\ zeros >= 1) =>
                  /\ 2 * ones * zeros > n
                  /\ runs.branch = "z"
                  /\ runs.z # Inf
                  /\ runs.z.k = "quot"
                  /\ runs.z.num = Rat(n * runs.runs - (n + 2 * ones * zeros), n)
                  /\ runs.z.den.k = "sqrt"
                  /\ runs.z.den.of.n > 0
                  /\ runs.z.den.of.d > 0

C10_Witness ==
    /\ IsSet(runs)
    /\ runs.branch = "z"
    /\ Sum(runs.bs) = 1
    /\ Len(data) = 1

====
